---- MODULE Spec2Model ----
(***************************************************************************)
(* InfoScraper2.py: a thread pool of scrape_page tasks sharing one         *)
(* StorageManager, followed by the final flush of the main program.        *)
(*                                                                         *)
(* Process 0 is the main program (run, then flush_text_storage); process   *)
(* t >= 1 is the scrape_page call for seed_urls[t].  A TextRecord is       *)
(* identified by the index of the task that built it.                      *)
(***************************************************************************)
EXTENDS Integers, Sequences, FiniteSets, TLC

\* ---------------------------------------------------------------- CONFIG
\* The pool width (5 in CONFIG) ranges over 1..MaxWorkers and the flush
\* threshold (1000 in CONFIG) over 1..MaxStorage.  download taken by itself
\* is called until the ledger holds MaxAcquired records.
MaxWorkers == 2
MaxStorage == 2
MaxAcquired == 3
retry_attempts == 3
retry_backoff == 2
min_text_length == 500
status_forcelist == {429, 500, 502, 503, 504}
storage_formats == {"jsonl", "parquet"}
allowed_languages == {"en"}
blocklist_phrases == {"lorem ipsum", "test content"}
\* Retry(total=CONFIG["retry_attempts"]): retries after the first request.
RetryTotal == retry_attempts

\* session.get raised a connection error instead of returning a response.
NoResponse == -1

\* The value of server[t] before the page of t is requested.
NoText == [length |-> 0, written |-> {}, lang |-> "unknown"]
NoServer == [pre |-> 0, final |-> 0]

\* ----------------------------------------------------------------- inputs
\* A URL is its domain (url.split('/')[2]) and its path.
Url(d, p) == [domain |-> d, path |-> p]

\* The seed lists run() is called with: the two articles of one domain that
\* __main__ lists, and the first of them alone.
SeedLists ==
    { << Url("example.com", "article1") >>,
      << Url("example.com", "article1"), Url("example.com", "article2") >> }

Domains == {"example.com"}

VARIABLES
    seed_urls,        \* the argument of run()
    max_workers,      \* the width of the ThreadPoolExecutor of run()
    max_storage,      \* StorageManager.max_storage
    pc,               \* position of each process
    robots_requests,  \* domain -> number of robots.txt requests issued
    robots,           \* task -> "none", then what its robots.txt request came to
    server,           \* task -> how the server of its page answers
    page_requests,    \* task -> number of HTTP requests issued for its page
    sleeps,           \* task -> the backoff sleeps of retry_request, in order
    text_outcome,     \* task -> "none", "stored" or "rejected"
    text_storage,     \* StorageManager.text_storage
    stored_at,        \* task -> the buffer size its append produced (0 before)
    df,               \* process -> the DataFrame built by its flush
    files,            \* output units written, in order: [format, batch, by]
    image_storage,    \* StorageManager.image_storage
    page_images,      \* task -> the <img> tags found on its page
    img_i,            \* task -> the tag the image loop is at
    image_files,      \* the images directory: the files [name, content]
    log,              \* the lines logged (the order is not kept)
    text,             \* the argument of the validate_content call observed
    verdict           \* what that call returned ("none" before it returns)

vars == << seed_urls, max_workers, max_storage, pc, robots_requests, robots,
           server, page_requests, sleeps, text_outcome, text_storage, stored_at,
           df, files, image_storage, image_files, page_images, img_i, log,
           text, verdict >>

\* The call of validate_content taken by itself; the run of the scraper
\* leaves it alone.
call == << text, verdict >>

Tasks == DOMAIN seed_urls
Main == 0
Procs == {Main} \cup Tasks

Terminal == {"done", "skipped", "failed"}
Active(t) == pc[t] \notin ({"pending"} \cup Terminal)

Log(level, msg, t, n) == [level |-> level, msg |-> msg, task |-> t, n |-> n]

\* ----------------------------------------------------------------- robots
RobotsOutcomes ==
    {"allow", "deny", "unauthorized", "not_found", "server_error", "net_error"}

\* What the request came to: robots.txt could not be fetched or parsed
\* ("failed"), or the site answered and permits or denies the URL.
RobotsDecision(outcome) ==
    IF outcome \in {"server_error", "net_error"} THEN "failed"
    ELSE IF outcome \in {"allow", "not_found"} THEN "permit"
    ELSE "deny"

\* RobotFileParser.read() as called by get_robots_parser: the parser's flags
\* after the request met `outcome`, and whether read() raised.
get_robots_parser(outcome) ==
    [ disallow_all |-> outcome = "unauthorized",
      allow_all    |-> outcome = "not_found",
      last_checked |-> outcome \in {"allow", "deny"},
      rule_allows  |-> outcome # "deny",
      raised       |-> outcome = "net_error" ]

\* can_fetch without the rules of the file that was read.
can_fetchUnruled(rp) ==
    IF rp.disallow_all THEN FALSE
    ELSE IF rp.allow_all THEN TRUE
    ELSE rp.last_checked

\* RobotFileParser.can_fetch("*", url)
can_fetch(rp) ==
    IF rp.disallow_all THEN FALSE
    ELSE IF rp.allow_all THEN TRUE
    ELSE IF ~rp.last_checked THEN FALSE
    ELSE rp.rule_allows

Init ==
    /\ seed_urls \in SeedLists
    /\ max_workers \in 1..MaxWorkers
    /\ max_storage \in 1..MaxStorage
    /\ pc = [p \in {Main} \cup DOMAIN seed_urls |-> IF p = Main THEN "run" ELSE "pending"]
    /\ robots_requests = [d \in Domains |-> 0]
    /\ robots = [t \in DOMAIN seed_urls |-> "none"]
    /\ server = [t \in DOMAIN seed_urls |-> NoServer]
    /\ page_requests = [t \in DOMAIN seed_urls |-> 0]
    /\ sleeps = [t \in DOMAIN seed_urls |-> << >>]
    /\ text_outcome = [t \in DOMAIN seed_urls |-> "none"]
    /\ text_storage = << >>
    /\ stored_at = [t \in DOMAIN seed_urls |-> 0]
    /\ df = [p \in {Main} \cup DOMAIN seed_urls |-> << >>]
    /\ files = << >>
    /\ image_storage = << >>
    /\ image_files = {}
    /\ page_images = [t \in DOMAIN seed_urls |-> << >>]
    /\ img_i = [t \in DOMAIN seed_urls |-> 0]
    /\ log = {}
    /\ text = NoText
    /\ verdict = "none"

\* Start with the pool giving up its queue once a task has failed.
StartUnlessFailed(t) ==
    /\ pc[t] = "pending"
    /\ \A u \in Tasks : u < t => pc[u] # "pending"
    /\ \A u \in Tasks : pc[u] # "failed"
    /\ Cardinality({u \in Tasks : Active(u)}) < max_workers
    /\ pc' = [pc EXCEPT ![t] = "robots"]
    /\ UNCHANGED << call, image_files, seed_urls, max_workers, max_storage,
                    robots_requests, robots, server, page_requests, sleeps,
                    text_outcome, text_storage, stored_at, df, files,
                    image_storage, page_images, img_i, log >>

\* Start with a thread for every submitted task.
StartUnlimited(t) ==
    /\ pc[t] = "pending"
    /\ \A u \in Tasks : u < t => pc[u] # "pending"
    /\ pc' = [pc EXCEPT ![t] = "robots"]
    /\ UNCHANGED << call, image_files, seed_urls, max_workers, max_storage,
                    server, stored_at, robots_requests, robots, page_requests,
                    sleeps, text_outcome, text_storage, df, files,
                    image_storage, page_images, img_i, log >>

\* ThreadPoolExecutor: a free worker takes the oldest submitted task.
Start(t) ==
    /\ pc[t] = "pending"
    /\ \A u \in Tasks : u < t => pc[u] # "pending"
    /\ Cardinality({u \in Tasks : Active(u)}) < max_workers
    /\ pc' = [pc EXCEPT ![t] = "robots"]
    /\ UNCHANGED << call, image_files, seed_urls, max_workers, max_storage,
                    server, stored_at, robots_requests, robots, page_requests,
                    sleeps, text_outcome, text_storage, df, files,
                    image_storage, page_images, img_i, log >>

\* scrape_page, lines 240-244: the robots.txt request and the permission check.
RobotsCheck(t) ==
    /\ pc[t] = "robots"
    /\ \E outcome \in RobotsOutcomes :
         LET rp == get_robots_parser(outcome)
             d == seed_urls[t].domain
             warn == IF rp.raised THEN {Log("warning", "robots_unreadable", t, 0)} ELSE {}
         IN /\ robots_requests' = [robots_requests EXCEPT ![d] = @ + 1]
            /\ robots' = [robots EXCEPT ![t] = RobotsDecision(outcome)]
            /\ IF can_fetch(rp)
               THEN /\ pc' = [pc EXCEPT ![t] = "fetch"]
                    /\ log' = log \cup warn
               ELSE /\ pc' = [pc EXCEPT ![t] = "skipped"]
                    /\ log' = log \cup warn \cup {Log("warning", "skipped", t, 0)}
    /\ UNCHANGED << call, image_files, seed_urls, max_workers, max_storage,
                    server, stored_at, page_requests, sleeps, text_outcome,
                    text_storage, df, files, image_storage, page_images, img_i
                    >>

\* ------------------------------------------------------------------ fetch
\* What the server of a page answers: 503 to its first `pre` requests and
\* `final` to every later one.
PageServers ==
    [pre : {0, RetryTotal + 1}, final : {200, 404, 503, NoResponse}]

Response(srv, i) == IF i <= srv.pre THEN 503 ELSE srv.final

\* Retryable with every HTTP error status taken for a retryable one.
RetryableAnyError(r) == r = NoResponse \/ r >= 400

\* The adapter's Retry retries connection errors and the forcelist statuses.
Retryable(r) == r = NoResponse \/ r \in status_forcelist

\* session.get through the HTTPAdapter mounted by _init_session: `sent`
\* requests were issued before, `left` retries remain.  With the retries
\* exhausted the adapter raises (ConnectionError or RetryError).
RECURSIVE adapter_send(_, _, _)
adapter_send(srv, sent, left) ==
    LET r == Response(srv, sent + 1)
    IN IF ~Retryable(r) THEN [raised |-> FALSE, status |-> r, sent |-> sent + 1]
       ELSE IF left = 0 THEN [raised |-> TRUE, status |-> r, sent |-> sent + 1]
       ELSE adapter_send(srv, sent + 1, left - 1)

session_get(srv, sent) == adapter_send(srv, sent, RetryTotal)

\* retry_loop sleeping retry_backoff seconds after every failed attempt but
\* the last.
RECURSIVE retry_loopFixedSleep(_, _, _, _)
retry_loopFixedSleep(srv, attempt, sent, slept) ==
    LET got == session_get(srv, sent)
    IN IF ~got.raised
       THEN [raised |-> FALSE, status |-> got.status, sent |-> got.sent,
             sleeps |-> slept, failures |-> attempt - 1]
       ELSE IF attempt < retry_attempts
       THEN retry_loopFixedSleep(srv, attempt + 1, got.sent,
                                 Append(slept, retry_backoff))
       ELSE [raised |-> TRUE, status |-> got.status, sent |-> got.sent,
             sleeps |-> slept, failures |-> attempt]

\* retry_request(self.session.get, url, ...), from attempt `attempt` on.
RECURSIVE retry_loop(_, _, _, _)
retry_loop(srv, attempt, sent, slept) ==
    LET got == session_get(srv, sent)
    IN IF ~got.raised
       THEN [raised |-> FALSE, status |-> got.status, sent |-> got.sent,
             sleeps |-> slept, failures |-> attempt - 1]
       ELSE IF attempt < retry_attempts
       THEN retry_loop(srv, attempt + 1, got.sent,
                       Append(slept, retry_backoff ^ attempt))
       ELSE [raised |-> TRUE, status |-> got.status, sent |-> got.sent,
             sleeps |-> slept, failures |-> attempt]

retry_request(srv) == retry_loop(srv, 1, 0, << >>)

\* response.raise_for_status()
raise_for_status(status) == status >= 400

\* scrape_page, lines 246-256: the rate-limit sleep, then the page request
\* with its retries and raise_for_status.
FetchPage(t) ==
    /\ pc[t] = "fetch"
    /\ \E srv \in PageServers :
         LET res == retry_request(srv)
             attempts == {Log("error", "attempt_failed", t, n) : n \in 1..res.failures}
         IN /\ server' = [server EXCEPT ![t] = srv]
            /\ page_requests' = [page_requests EXCEPT ![t] = res.sent]
            /\ sleeps' = [sleeps EXCEPT ![t] = res.sleeps]
            /\ IF res.raised \/ raise_for_status(res.status)
               THEN /\ pc' = [pc EXCEPT ![t] = "failed"]
                    /\ log' = log \cup attempts
                                  \cup {Log("error", "scrape_error: fetch", t, 0)}
               ELSE /\ pc' = [pc EXCEPT ![t] = "fetched"]
                    /\ log' = log \cup attempts
    /\ UNCHANGED << call, image_files, seed_urls, max_workers, max_storage,
                    stored_at, robots_requests, robots, text_outcome,
                    text_storage, df, files, image_storage, page_images, img_i
                    >>

\* ------------------------------------------------------------- validation
\* A cleaned text: its length, the phrases written in it and what langdetect
\* makes of it ("unknown": detect raises).  A string is its letters with the
\* letter case put aside, and the case it is written in.
Str(letters, case) == [letters |-> letters, case |-> case]

Phrases ==
    { {}, {Str("lorem ipsum", "title")}, {Str("test content", "lower")},
      {Str("lorem ipsum", "upper")}, {Str("hello", "lower")},
      {Str("hello", "title"), Str("test content", "title")} }

Texts ==
    [ length : {0, min_text_length - 1, min_text_length,
               min_text_length + 1},
      written : Phrases,
      lang : {"en", "fr", "unknown"} ]

\* str.lower()
Lower(w) == [w EXCEPT !.case = "lower"]

\* validate_content comparing the phrases as they are written.
validate_contentCaseSensitive(txt) ==
    IF txt.length < min_text_length THEN FALSE
    ELSE IF \E phrase \in blocklist_phrases :
              \E w \in txt.written : Str(phrase, "lower") = w THEN FALSE
    ELSE IF txt.lang = "unknown" THEN FALSE
    ELSE IF txt.lang \notin allowed_languages THEN FALSE
    ELSE TRUE

\* The phrases of CONFIG are written in lower case (line 37).
validate_content(txt) ==
    IF txt.length < min_text_length THEN FALSE
    ELSE IF \E phrase \in blocklist_phrases :
              \E w \in txt.written :
                 Lower(Str(phrase, "lower")) = Lower(w) THEN FALSE
    ELSE IF txt.lang = "unknown" THEN FALSE
    ELSE IF txt.lang \notin allowed_languages THEN FALSE
    ELSE TRUE

\* Validate with the image loop placed inside the accepting branch.
ValidateThenImagesOnlyIfValid(t) ==
    /\ pc[t] = "fetched"
    /\ \E txt \in Texts :
         IF validate_content(txt)
         THEN /\ pc' = [pc EXCEPT ![t] = "store_append"]
              /\ UNCHANGED << text_outcome, log >>
         ELSE /\ pc' = [pc EXCEPT ![t] = "done"]
              /\ text_outcome' = [text_outcome EXCEPT ![t] = "rejected"]
              /\ log' = log \cup {Log("info", "rejected", t, 0)}
    /\ UNCHANGED << call, image_files, seed_urls, max_workers, max_storage,
                    robots_requests, robots, server, page_requests, sleeps,
                    text_storage, stored_at, df, files, image_storage,
                    page_images, img_i >>

\* validate_content reaches detect(text) and detect raises (line 217).
detect_raises(txt) ==
    /\ txt.length >= min_text_length
    /\ ~\E phrase \in blocklist_phrases :
           \E w \in txt.written : Lower(Str(phrase, "lower")) = Lower(w)
    /\ txt.lang = "unknown"

\* scrape_page, lines 258-262 and 271-272: extract, clean, validate.
Validate(t) ==
    /\ pc[t] = "fetched"
    /\ \E txt \in Texts :
         IF validate_content(txt)
         THEN /\ pc' = [pc EXCEPT ![t] = "store_append"]
              /\ UNCHANGED << text_outcome, log >>
         ELSE /\ pc' = [pc EXCEPT ![t] = "find_images"]
              /\ text_outcome' = [text_outcome EXCEPT ![t] = "rejected"]
              /\ log' = log \cup {Log("info", "rejected", t, 0)}
                            \cup (IF detect_raises(txt)
                                  THEN {Log("warning", "language_undetected", t, 0)}
                                  ELSE {})
    /\ UNCHANGED << call, image_files, seed_urls, max_workers, max_storage,
                    server, stored_at, robots_requests, robots, page_requests,
                    sleeps, text_storage, df, files, image_storage,
                    page_images, img_i >>

\* ---------------------------------------------------------------- storage
\* store_text, line 74.  No lock is held from here to the end of the flush.
StoreAppend(t) ==
    /\ pc[t] = "store_append"
    /\ text_storage' = Append(text_storage, t)
    /\ stored_at' = [stored_at EXCEPT ![t] = Len(text_storage) + 1]
    /\ pc' = [pc EXCEPT ![t] = "store_check"]
    /\ UNCHANGED << call, image_files, seed_urls, max_workers, max_storage,
                    server, robots_requests, robots, page_requests, sleeps,
                    text_outcome, df, files, image_storage, page_images, img_i,
                    log >>

\* The caller goes on after flush_text_storage (or store_text) returned:
\* the main program ends; scrape_page logs line 270 and turns to the images.
Returned(p) ==
    IF p = Main
    THEN /\ pc' = [pc EXCEPT ![p] = "exit"]
         /\ UNCHANGED << text_outcome, log >>
    ELSE /\ pc' = [pc EXCEPT ![p] = "find_images"]
         /\ text_outcome' = [text_outcome EXCEPT ![p] = "stored"]
         /\ log' = log \cup {Log("info", "stored", p, 0)}

\* A write of the flush raised: scrape_page's handler (line 280) logs it and
\* the task ends; in the main program nothing catches it.
Raised(p) ==
    IF p = Main
    THEN /\ pc' = [pc EXCEPT ![p] = "crashed"]
         /\ UNCHANGED << text_outcome, log >>
    ELSE /\ pc' = [pc EXCEPT ![p] = "failed"]
         /\ log' = log \cup {Log("error", "scrape_error: write", p, 0)}
         /\ UNCHANGED text_outcome

\* store_text, lines 75-76
StoreCheck(t) ==
    /\ pc[t] = "store_check"
    /\ IF Len(text_storage) >= max_storage
       THEN /\ pc' = [pc EXCEPT ![t] = "flush_test"]
            /\ UNCHANGED << text_outcome, log >>
       ELSE Returned(t)
    /\ UNCHANGED << call, image_files, seed_urls, max_workers, max_storage,
                    server, stored_at, robots_requests, robots, page_requests,
                    sleeps, text_storage, df, files, image_storage,
                    page_images, img_i >>

\* flush_text_storage without the test of lines 79-80.
FlushUntested(p) ==
    /\ pc[p] = "flush_test"
    /\ pc' = [pc EXCEPT ![p] = "flush_frame"]
    /\ UNCHANGED << call, image_files, seed_urls, max_workers, max_storage,
                    server, stored_at, robots_requests, robots, page_requests,
                    sleeps, text_storage, df, files, image_storage,
                    page_images, img_i, text_outcome, log >>

\* flush_text_storage, lines 79-80
FlushTest(p) ==
    /\ pc[p] = "flush_test"
    /\ IF text_storage = << >>
       THEN Returned(p)
       ELSE /\ pc' = [pc EXCEPT ![p] = "flush_frame"]
            /\ UNCHANGED << text_outcome, log >>
    /\ UNCHANGED << call, image_files, seed_urls, max_workers, max_storage,
                    server, stored_at, robots_requests, robots, page_requests,
                    sleeps, text_storage, df, files, image_storage,
                    page_images, img_i >>

\* flush_text_storage, lines 82-83: the DataFrame copies the buffer as it is now.
FlushFrame(p) ==
    /\ pc[p] = "flush_frame"
    /\ df' = [df EXCEPT ![p] = text_storage]
    /\ pc' = [pc EXCEPT ![p] = "flush_jsonl"]
    /\ UNCHANGED << call, image_files, seed_urls, max_workers, max_storage,
                    server, stored_at, robots_requests, robots, page_requests,
                    sleeps, text_outcome, text_storage, files, image_storage,
                    page_images, img_i, log >>

\* One output unit of `format` holding the frame of p.
Unit(format, p) == [format |-> format, batch |-> df[p], by |-> p]

\* flush_text_storage, lines 84-87 (jsonl) and 89-92 (parquet): the write
\* succeeds or raises.
FlushWrite(p, format, here, next) ==
    /\ pc[p] = here
    /\ IF format \in storage_formats
       THEN \E written \in BOOLEAN :
              IF written
              THEN /\ files' = Append(files, Unit(format, p))
                   /\ pc' = [pc EXCEPT ![p] = next]
                   /\ df' = df
                   /\ log' = log \cup {Log("info", format, p, 0)}
                   /\ UNCHANGED text_outcome
              ELSE /\ Raised(p)
                   /\ df' = [df EXCEPT ![p] = << >>]
                   /\ files' = files
       ELSE /\ pc' = [pc EXCEPT ![p] = next]
            /\ UNCHANGED << df, files, text_outcome, log >>
    /\ UNCHANGED << call, image_files, seed_urls, max_workers, max_storage,
                    server, stored_at, robots_requests, robots, page_requests,
                    sleeps, text_storage, image_storage, page_images, img_i >>

FlushJsonl(p) == FlushWrite(p, "jsonl", "flush_jsonl", "flush_parquet")

FlushParquet(p) == FlushWrite(p, "parquet", "flush_parquet", "flush_clear")

\* flush_text_storage, line 94
FlushClear(p) ==
    /\ pc[p] = "flush_clear"
    /\ text_storage' = << >>
    /\ df' = [df EXCEPT ![p] = << >>]
    /\ Returned(p)
    /\ UNCHANGED << call, image_files, seed_urls, max_workers, max_storage,
                    server, stored_at, robots_requests, robots, page_requests,
                    sleeps, files, image_storage, page_images, img_i >>

\* ----------------------------------------------------------------- images
\* An <img> tag: its src is no absolute URL ("relative"), or the download
\* yields a valid image ("ok") or fails ("broken").
ImageKinds == {"relative", "ok", "broken"}

\* Where ImageDownloader.download can fail: the GET raises, raise_for_status
\* raises, reading response.content raises, Image.open or verify raises.
ImageFailures == {"net_error", "http_error", "io_error", "bad_payload"}

\* The pages served: no image, one image of each kind, and two images with
\* a valid one before or after a failing one.
PageImages ==
    { << >>, << "relative" >>, << "ok" >>, << "broken" >>,
      << "ok", "broken" >>, << "broken", "ok" >> }

\* scrape_page, line 275: soup.find_all('img')
FindImages(t) ==
    /\ pc[t] = "find_images"
    /\ \E imgs \in PageImages : page_images' = [page_images EXCEPT ![t] = imgs]
    /\ img_i' = [img_i EXCEPT ![t] = 1]
    /\ pc' = [pc EXCEPT ![t] = "images"]
    /\ UNCHANGED << call, image_files, seed_urls, max_workers, max_storage,
                    server, stored_at, robots_requests, robots, page_requests,
                    sleeps, text_outcome, text_storage, df, files,
                    image_storage, log >>

\* The byte-streams that are valid images, and the one the pages of a run
\* serve.
Payloads == {"png_a", "png_b", "jpeg_a"}
PageImage == "png_a"

\* img.format, read from the bytes.
Format(content) ==
    IF content = "jpeg_a" THEN Str("jpeg", "upper") ELSE Str("png", "upper")

\* hashlib.sha256(content).hexdigest(): one digest for each byte-stream.
sha256(content) ==
    CASE content = "png_a" -> "3fa9"
      [] content = "png_b" -> "b07c"
      [] content = "jpeg_a" -> "e512"

\* The file name without the digest.
filenameOfFormat(domain, content) ==
    << domain, "_", ".", Lower(Format(content)) >>

\* Line 157: f"{domain}_{content_hash}.{img.format.lower()}"
filename(domain, content) ==
    << domain, "_", sha256(content), ".", Lower(Format(content)) >>

\* store_image with the record joining the ledger after the file is written.
store_imageWrittenFirst(record, image_content, written) ==
    /\ image_storage' = IF written THEN Append(image_storage, record)
                        ELSE image_storage
    /\ image_files' =
         IF written
         THEN {f \in image_files : f.name # record.filename}
              \cup {[name |-> record.filename, content |-> image_content]}
         ELSE image_files
    /\ log' = log \cup {IF written
                        THEN Log("info", "image_saved", record.task, record.i)
                        ELSE Log("error", "image_save_error", record.task, record.i)}

\* store_image: the record joins the ledger, then the file is written over
\* whatever has its name; a failed write is logged here and not raised.
store_image(record, image_content, written) ==
    /\ image_storage' = Append(image_storage, record)
    /\ image_files' =
         IF written
         THEN {f \in image_files : f.name # record.filename}
              \cup {[name |-> record.filename, content |-> image_content]}
         ELSE image_files
    /\ log' = log \cup {IF written
                        THEN Log("info", "image_saved", record.task, record.i)
                        ELSE Log("error", "image_save_error", record.task, record.i)}

\* The record of lines 159-166 for the image of tag i of the page of task t;
\* content stands for its dimensions and format, which are read from the
\* bytes.
image_data(t, i, domain, content) ==
    [ task |-> t, i |-> i, filename |-> filename(domain, content),
      source_domain |-> domain, content |-> content ]

\* download with the record handed to store_image before the payload is
\* verified.
downloadUnverified(t, i, domain, kind, content) ==
    IF kind = "ok"
    THEN \E written \in BOOLEAN :
           store_image(image_data(t, i, domain, content), content, written)
    ELSE /\ log' = log \cup {Log("error", "image_error", t, i)}
         /\ image_storage' =
              Append(image_storage, image_data(t, i, domain, content))
         /\ image_files' = image_files

\* ImageDownloader.download: every exception is caught and logged at line 169.
download(t, i, domain, kind, content) ==
    IF kind = "ok"
    THEN \E written \in BOOLEAN :
           store_image(image_data(t, i, domain, content), content, written)
    ELSE /\ \E failure \in ImageFailures : TRUE
         /\ log' = log \cup {Log("error", "image_error", t, i)}
         /\ UNCHANGED << image_storage, image_files >>

\* scrape_page, lines 275-278: one turn of the loop over the page's images.
NextImage(t) ==
    /\ pc[t] = "images"
    /\ img_i[t] <= Len(page_images[t])
    /\ LET kind == page_images[t][img_i[t]]
       IN IF kind = "relative"
          THEN UNCHANGED << image_storage, image_files, log >>
          ELSE download(t, img_i[t], seed_urls[t].domain, kind, PageImage)
    /\ img_i' = [img_i EXCEPT ![t] = @ + 1]
    /\ UNCHANGED << call, seed_urls, max_workers, max_storage, server,
                    stored_at, pc, robots_requests, robots, page_requests,
                    sleeps, text_outcome, text_storage, df, files, page_images
                    >>

\* scrape_page returns after the last image.
ImagesDone(t) ==
    /\ pc[t] = "images"
    /\ img_i[t] > Len(page_images[t])
    /\ pc' = [pc EXCEPT ![t] = "done"]
    /\ UNCHANGED << call, image_files, seed_urls, max_workers, max_storage,
                    server, stored_at, robots_requests, robots, page_requests,
                    sleeps, text_outcome, text_storage, df, files,
                    image_storage, page_images, img_i, log >>

\* -------------------------------------------------------------------- run
\* run() returns once every future has a result; __main__ then calls
\* flush_text_storage (line 304).
RunReturns ==
    /\ pc[Main] = "run"
    /\ \A t \in Tasks : pc[t] \in Terminal
    /\ pc' = [pc EXCEPT ![Main] = "flush_test"]
    /\ UNCHANGED << call, image_files, seed_urls, max_workers, max_storage,
                    server, stored_at, robots_requests, robots, page_requests,
                    sleeps, text_outcome, text_storage, df, files,
                    image_storage, page_images, img_i, log >>

Next ==
    \/ \E t \in Tasks : Start(t)
    \/ \E t \in Tasks : RobotsCheck(t)
    \/ \E t \in Tasks : FetchPage(t)
    \/ \E t \in Tasks : Validate(t)
    \/ \E t \in Tasks : StoreAppend(t)
    \/ \E t \in Tasks : StoreCheck(t)
    \/ \E p \in Procs : FlushTest(p)
    \/ \E p \in Procs : FlushFrame(p)
    \/ \E p \in Procs : FlushJsonl(p)
    \/ \E p \in Procs : FlushParquet(p)
    \/ \E p \in Procs : FlushClear(p)
    \/ \E t \in Tasks : FindImages(t)
    \/ \E t \in Tasks : NextImage(t)
    \/ \E t \in Tasks : ImagesDone(t)
    \/ RunReturns

Spec == Init /\ [][Next]_vars

\* No thread runs for ever, so all that fairness asks is that the program
\* does not stop while some thread can take a step.
FairSpec == Spec /\ WF_vars(Next)

\* ------------------------------------------------- validate_content alone
\* The variables of the run of the scraper, and the state in which no
\* scraper is running.
scraper == << seed_urls, max_workers, max_storage, pc, robots_requests,
              robots, server, page_requests, sleeps, text_outcome,
              text_storage, stored_at, df, files, image_storage, image_files,
              page_images, img_i, log >>

NoRun ==
    /\ seed_urls = << >>
    /\ max_workers = 1
    /\ max_storage = 1
    /\ pc = [p \in {Main} |-> "run"]
    /\ robots_requests = [d \in Domains |-> 0]
    /\ robots = << >>
    /\ server = << >>
    /\ page_requests = << >>
    /\ sleeps = << >>
    /\ text_outcome = << >>
    /\ text_storage = << >>
    /\ stored_at = << >>
    /\ df = [p \in {Main} |-> << >>]
    /\ files = << >>
    /\ image_storage = << >>
    /\ image_files = {}
    /\ page_images = << >>
    /\ img_i = << >>
    /\ log = {}

ValidateInit ==
    /\ NoRun
    /\ text \in Texts
    /\ verdict = "none"

\* One call validate_content(text), lines 206-220.
ValidateCall ==
    /\ verdict = "none"
    /\ verdict' = IF validate_content(text) THEN "True" ELSE "False"
    /\ UNCHANGED << text, scraper >>

ValidateSpec == ValidateInit /\ [][ValidateCall]_vars

\* ------------------------------------------------------- download alone
\* ImageDownloader.download called for pages of two domains, over and over.
PageDomains == {"example.com", "example.org"}
Pages == {1, 2}

ImageInit ==
    /\ NoRun
    /\ text = NoText
    /\ verdict = "none"

\* One call download(url, domain), lines 146-169, for the first image of a
\* page.
Download ==
    /\ Len(image_storage) < MaxAcquired
    /\ \E t \in Pages, domain \in PageDomains, content \in Payloads :
         \E kind \in {"ok", "broken"} : download(t, 1, domain, kind, content)
    /\ UNCHANGED << call, seed_urls, max_workers, max_storage, pc,
                    robots_requests, robots, server, page_requests, sleeps,
                    text_outcome, text_storage, stored_at, df, files,
                    page_images, img_i >>

ImageSpec == ImageInit /\ [][Download]_vars

\* ------------------------------------------------------------ vocabulary
Range(q) == {q[i] : i \in DOMAIN q}

\* The output units of `format` that hold the record of task t.
UnitsOf(t, format) ==
    {i \in DOMAIN files : files[i].format = format /\ t \in Range(files[i].batch)}

\* The output units of `format` written by the flush of process p.
UnitsBy(p, format) ==
    {i \in DOMAIN files : files[i].format = format /\ files[i].by = p}

\* A write of the flush of task t raised.
WriteFailedIn(t) == Log("error", "scrape_error: write", t, 0) \in log

NoWriteFailed == pc[Main] # "crashed" /\ \A t \in Tasks : ~WriteFailedIn(t)

RecordsOf(t) == {i \in DOMAIN image_storage : image_storage[i].task = t}

ImageErrorsOf(t) == {e \in log : e.msg = "image_error" /\ e.task = t}

\* ------------------------------------------------------------------ claims
\* C1: with no write failing, once the main program's final flush has
\* returned, every record passed to store_text is in exactly one output unit
\* of every format: none is lost, none is written in two batches.
C1_EveryRecordInOneBatch ==
    (pc[Main] = "exit" /\ NoWriteFailed) =>
        \A t \in Tasks : stored_at[t] > 0 =>
            \A format \in storage_formats : Cardinality(UnitsOf(t, format)) = 1

\* C2: with no write failing, a store_text call that has returned wrote
\* exactly one output unit per format if its append brought the buffer to
\* exactly max_storage records, and none if it left the buffer below that.
\* (That the buffer is empty when such a flush returns is the flush's last
\* statement, line 94.)
C2_ThresholdFlushesOnce ==
    NoWriteFailed =>
        \A t \in Tasks : text_outcome[t] = "stored" =>
            \A format \in storage_formats :
                /\ stored_at[t] = max_storage => Cardinality(UnitsBy(t, format)) = 1
                /\ stored_at[t] < max_storage => Cardinality(UnitsBy(t, format)) = 0

\* C3: a task whose page answers 503 to every request has issued exactly
\* retry_attempts requests when it ends, and ends failed.
C3_Persistent503 ==
    \A t \in Tasks :
        (server[t].final = 503 /\ pc[t] \in Terminal) =>
            /\ pc[t] = "failed"
            /\ page_requests[t] = retry_attempts

\* C5: a task whose robots.txt could not be fetched or parsed has a warning
\* logged, is permitted, and is not skipped.
C5_FailOpen ==
    \A t \in Tasks :
        robots[t] = "failed" =>
            /\ Log("warning", "robots_unreadable", t, 0) \in log
            /\ pc[t] # "skipped"

\* C6: robots.txt is requested at most once per domain during a run.
C6_OneRobotsRequestPerDomain ==
    \A d \in Domains : robots_requests[d] <= 1

\* C9: a write failure of a flush does not abort the run (the final flush)
\* and does not end the task whose store_text triggered it: that task goes on
\* to its images.
C9_FlushFailureIsolated ==
    /\ pc[Main] # "crashed"
    /\ \A t \in Tasks : WriteFailedIn(t) => pc[t] \in {"find_images", "images", "done"}

\* C4: a task whose page answers 404 ends failed on that answer: the 404 is
\* the last request of the task, and when it is the first answer exactly one
\* request was issued, retry_request slept and logged no failed attempt;
\* no text and no image of the task is stored.
C4_NotFoundFailsAtOnce ==
    \A t \in Tasks :
        server[t].final = 404 =>
            /\ pc[t] = "failed"
            /\ Log("error", "scrape_error: fetch", t, 0) \in log
            /\ page_requests[t] = server[t].pre + 1
            /\ server[t].pre = 0 =>
                 /\ page_requests[t] = 1
                 /\ sleeps[t] = << >>
                 /\ \A e \in log : ~(e.msg = "attempt_failed" /\ e.task = t)
            /\ text_outcome[t] = "none"
            /\ stored_at[t] = 0
            /\ t \notin Range(text_storage)
            /\ \A format \in storage_formats : UnitsOf(t, format) = {}
            /\ RecordsOf(t) = {}
            /\ img_i[t] = 0

C4_Witness ==
    \E t \in Tasks :
        /\ server[t] = [pre |-> 0, final |-> 404]
        /\ pc[t] = "failed"
        /\ page_requests[t] = 1

\* The outcome of task t on its own: skipped unless robots.txt permits,
\* failed unless its page ends up answering 200, done otherwise.
OutcomeAlone(t) ==
    IF robots[t] # "permit" THEN "skipped"
    ELSE IF server[t].final # 200 THEN "failed"
    ELSE "done"

AllTerminal == \A t \in Tasks : pc[t] \in Terminal

\* C7: every submitted task ends (done, failed, or skipped by robots.txt),
\* whatever fails in it or in its sibling, and a task that met no write
\* failure ends as it would have ended alone.
C7_TasksIsolated ==
    /\ [](\A t \in Tasks :
            (pc[t] \in Terminal /\ ~WriteFailedIn(t)) => pc[t] = OutcomeAlone(t))
    /\ <>AllTerminal

C7_Witness ==
    \E t, u \in Tasks :
        /\ pc[t] = "failed" /\ server[t].final = 503
        /\ pc[u] = "done" /\ text_outcome[u] = "rejected"
        /\ ImageErrorsOf(u) # {}
        /\ pc[Main] = "exit"

\* The state of task t in the terms of the task state machine.  A task the
\* robots check turns away leaves the path there; it counts as Failed.
TaskState(t) ==
    IF pc[t] \in {"pending", "robots"} THEN "Pending"
    ELSE IF pc[t] = "fetch" THEN "RobotsChecked"
    ELSE IF pc[t] \in {"fetched", "store_append", "store_check", "flush_test",
                       "flush_frame", "flush_jsonl", "flush_parquet", "flush_clear"}
    THEN "Fetched"
    ELSE IF pc[t] = "find_images" \/ (pc[t] = "images" /\ img_i[t] <= Len(page_images[t]))
    THEN (IF text_outcome[t] = "stored" THEN "TextStored"
          ELSE IF text_outcome[t] = "rejected" THEN "TextRejected"
          ELSE "Unknown")
    ELSE IF pc[t] = "images" THEN "ImagesProcessed"
    ELSE IF pc[t] = "done" THEN "Done"
    ELSE "Failed"

PathSteps ==
    { << "Pending", "RobotsChecked" >>, << "RobotsChecked", "Fetched" >>,
      << "Fetched", "TextStored" >>, << "Fetched", "TextRejected" >>,
      << "TextStored", "ImagesProcessed" >>, << "TextRejected", "ImagesProcessed" >>,
      << "ImagesProcessed", "Done" >> }
    \cup { << st, "Failed" >> : st \in {"Pending", "RobotsChecked", "Fetched",
                                        "TextStored", "TextRejected", "ImagesProcessed"} }

\* Everything that belongs to task t.
TaskView(t) ==
    << pc[t], robots[t], server[t], page_requests[t], sleeps[t], text_outcome[t],
       stored_at[t], df[t], page_images[t], img_i[t], {e \in log : e.task = t},
       RecordsOf(t), UnitsBy(t, "jsonl"), UnitsBy(t, "parquet") >>

\* C8: a task moves only along the path of the state machine; its page is
\* not requested before its robots check, none of its images is touched
\* before its text is stored or rejected, a task that is done has gone
\* through all its images whether its text was stored or rejected, and
\* nothing of a task changes once it has ended.
C8_TaskPath ==
    /\ [][\A t \in Tasks :
            \/ TaskState(t)' = TaskState(t)
            \/ << TaskState(t), TaskState(t)' >> \in PathSteps]_vars
    /\ [](\A t \in Tasks :
            /\ page_requests[t] > 0 => robots[t] # "none"
            /\ (img_i[t] > 0 \/ RecordsOf(t) # {} \/ ImageErrorsOf(t) # {})
                 => text_outcome[t] \in {"stored", "rejected"}
            /\ pc[t] = "done"
                 => /\ text_outcome[t] \in {"stored", "rejected"}
                    /\ img_i[t] = Len(page_images[t]) + 1)
    /\ [][\A t \in Tasks : pc[t] \in Terminal => TaskView(t)' = TaskView(t)]_vars

C8_Witness ==
    \E t \in Tasks :
        /\ pc[t] = "done"
        /\ text_outcome[t] = "rejected"
        /\ RecordsOf(t) # {}

\* The turns of the image loop of task t that are over.
TurnsDone(t) == {i \in DOMAIN page_images[t] : i < img_i[t]}

\* C10: a failed download is logged, stores no ImageRecord, and leaves the
\* text buffer, the output units and the text outcome as they were; the task
\* goes on to the next image and ends done with every image attempted.  A
\* page with one valid and one failing image ends with exactly one
\* ImageRecord and one image error logged.
C10_ImageFailuresIsolated ==
    /\ [](\A t \in Tasks :
            /\ \A i \in TurnsDone(t) :
                 page_images[t][i] = "broken" =>
                   /\ Log("error", "image_error", t, i) \in log
                   /\ \A r \in RecordsOf(t) : image_storage[r].i # i
                   /\ pc[t] \in {"images", "done"}
            /\ pc[t] = "done" =>
                 /\ TurnsDone(t) = DOMAIN page_images[t]
                 /\ \A i \in DOMAIN page_images[t] :
                      page_images[t][i] = "ok" =>
                        \E r \in RecordsOf(t) : image_storage[r].i = i
                 /\ page_images[t] \in {<< "ok", "broken" >>, << "broken", "ok" >>} =>
                      /\ Cardinality(RecordsOf(t)) = 1
                      /\ Cardinality(ImageErrorsOf(t)) = 1)
    /\ [][\A t \in Tasks :
            (pc[t] = "images" /\ img_i[t]' = img_i[t] + 1
               /\ page_images[t][img_i[t]] = "broken") =>
                 /\ text_storage' = text_storage
                 /\ text_outcome' = text_outcome
                 /\ files' = files
                 /\ image_storage' = image_storage
                 /\ pc' = pc]_vars

C10_Witness ==
    \E t \in Tasks :
        /\ pc[t] = "done"
        /\ page_images[t] = << "broken", "ok" >>
        /\ text_outcome[t] = "stored"
        /\ Cardinality(RecordsOf(t)) = 1

\* The number of records in the output units of `format`, over all units.
RECURSIVE RecordsIn(_, _)
RecordsIn(units, format) ==
    IF units = << >> THEN 0
    ELSE (IF Head(units).format = format THEN Len(Head(units).batch) ELSE 0)
         + RecordsIn(Tail(units), format)

\* The tasks whose page was fetched and whose text passed validation.
Accepted == {t \in Tasks : stored_at[t] > 0}

\* C11: the main program leaves run() only with every task ended; once its
\* final flush has returned, with no write having failed, the buffer is empty
\* and every format holds as many records as there are accepted texts.  With
\* two seeds, one accepted and one answering 404, and a threshold above 1,
\* the final flush writes the one batch, which holds the one record.
C11_FinalFlushWritesAll ==
    /\ pc[Main] # "run" => AllTerminal
    /\ (pc[Main] = "exit" /\ NoWriteFailed) =>
         /\ text_storage = << >>
         /\ \A format \in storage_formats :
              RecordsIn(files, format) = Cardinality(Accepted)
         /\ \A t, u \in Tasks :
              (stored_at[t] > 0 /\ server[u].final = 404 /\ max_storage > 1) =>
                \A format \in storage_formats :
                  /\ UnitsBy(Main, format) = UnitsOf(t, format)
                  /\ Cardinality(UnitsBy(Main, format)) = 1
                  /\ \A i \in UnitsBy(Main, format) : files[i].batch = << t >>

\* C12: the buffer never holds more than max_storage records.
C12_BufferBounded == Len(text_storage) <= max_storage

\* The three checks, each taken by itself.
LongEnough == text.length >= min_text_length
Blocklisted == \E w \in text.written : w.letters \in blocklist_phrases
LanguageAllowed == text.lang \in allowed_languages

\* C13: validate_content returns True exactly when the text is long enough,
\* holds no blocklist phrase in any letter case and is identified as an
\* allowed language, in whatever order the three are taken; a short text is
\* rejected, and so is a text holding a blocklist phrase.
C13_ValidateIffAllChecks ==
    verdict # "none" =>
      /\ verdict = "True" <=> (LongEnough /\ ~Blocklisted /\ LanguageAllowed)
      /\ verdict = "True" <=> (LanguageAllowed /\ ~Blocklisted /\ LongEnough)
      /\ ~LongEnough => verdict = "False"
      /\ Blocklisted => verdict = "False"

\* A long English text holding a blocklist phrase in capitals was rejected.
C13_Witness ==
    /\ verdict = "False"
    /\ LongEnough /\ LanguageAllowed
    /\ \E w \in text.written :
         w.letters \in blocklist_phrases /\ w.case # "lower"

\* The records of the ledger whose file was written: its content is there.
Saved(r) == [name |-> r.filename, content |-> r.content] \in image_files

\* C14: two images acquired for the same domain have the same file name
\* exactly when their bytes are the same, whatever page and call they came
\* from; so the directory holds one file for each (domain, bytes) written,
\* and each file holds the bytes its name stands for.
C14_FilenameOfDomainAndContent ==
    /\ \A q, r \in Range(image_storage) :
         q.source_domain = r.source_domain =>
           (q.filename = r.filename <=> q.content = r.content)
    /\ \A f \in image_files :
         \E r \in Range(image_storage) : f.name = r.filename /\ Saved(r)
    /\ \A d \in PageDomains, c \in Payloads :
         Cardinality({f \in image_files :
                        \E r \in Range(image_storage) :
                           /\ r.source_domain = d /\ r.content = c
                           /\ r.filename = f.name}) <= 1
    /\ (\A e \in log : e.msg # "image_save_error") =>
         Cardinality(image_files) =
           Cardinality({<< r.source_domain, r.content >> :
                          r \in Range(image_storage)})

\* The same bytes were saved for one domain from two pages, and other bytes
\* for that domain too.
C14_Witness ==
    \E q, r, x \in Range(image_storage) :
       /\ q.task # r.task /\ q.source_domain = r.source_domain
       /\ q.content = r.content /\ Saved(q)
       /\ x.source_domain = q.source_domain /\ x.content # q.content
       /\ Format(x.content) = Format(q.content) /\ Saved(x)
       /\ \A e \in log : e.msg # "image_save_error"

\* Process p enters flush_text_storage in this step, the buffer being empty.
EmptyFlush(p) ==
    pc[p] = "flush_test" /\ pc'[p] # "flush_test" /\ text_storage = << >>

\* C15: flush_text_storage entered with an empty buffer returns to its
\* caller at once: no unit is written, nothing is raised, and the buffer,
\* the image ledger and the images directory are as before; so the state
\* after it is again one in which a flush does nothing.  A run that stored
\* no record ends with no unit written.
C15_EmptyFlushIsNoOp ==
    /\ [][\A p \in Procs : EmptyFlush(p) =>
            /\ pc'[p] = IF p = Main THEN "exit" ELSE "find_images"
            /\ files' = files /\ df' = df
            /\ text_storage' = << >>
            /\ image_storage' = image_storage /\ image_files' = image_files
            /\ \A e \in log' \ log : e.level = "info" /\ e.msg = "stored"]_vars
    /\ [](pc[Main] = "exit" /\ Accepted = {} => files = << >>)

\* The final flush found the buffer empty after a worker's store_text had
\* flushed.
C15_Witness ==
    /\ pc[Main] = "exit"
    /\ files # << >>
    /\ \A i \in DOMAIN files : files[i].by # Main

\* C16: when store_image could not write the file of image i of task t, the
\* failure is logged by store_image and by nobody else, the record is in the
\* ledger, and the image loop goes on: the task does not fail, it is past
\* image i, and once it is done the later images were all attended to.
C16_StoreImageNeverRaises ==
    \A t \in Tasks : \A i \in DOMAIN page_images[t] :
       Log("error", "image_save_error", t, i) \in log =>
         /\ \E r \in RecordsOf(t) : image_storage[r].i = i
         /\ Log("error", "image_error", t, i) \notin log
         /\ pc[t] \in {"images", "done"}
         /\ img_i[t] > i
         /\ pc[t] = "done" =>
              \A j \in DOMAIN page_images[t] :
                 j > i => \/ Log("error", "image_error", t, j) \in log
                          \/ \E r \in RecordsOf(t) : image_storage[r].i = j

\* The file of the first image was not written, and the second image was
\* downloaded after it.
C16_Witness ==
    \E t \in Tasks :
       /\ Log("error", "image_save_error", t, 1) \in log
       /\ Log("info", "image_saved", t, 1) \notin log
       /\ Log("error", "image_error", t, 2) \in log
       /\ image_files = {}
       /\ pc[t] = "done"

\* The tasks a worker has taken and that have made their robots.txt request,
\* the first thing scrape_page does.
Begun(d) ==
    {t \in Tasks : seed_urls[t].domain = d /\ pc[t] \notin {"pending", "robots"}}

\* C17: never are more than max_workers tasks in progress; a task that was
\* taken is never taken again and a task that ended stays ended; each task
\* taken has run scrape_page once (one robots.txt request for each); and
\* when run() returns every seed has been run.  The seed lists are shorter
\* than, as long as and longer than the pool is wide.
C17_EachSeedOnceWithinPool ==
    /\ [](Cardinality({t \in Tasks : Active(t)}) <= max_workers)
    /\ [](\A d \in Domains : robots_requests[d] = Cardinality(Begun(d)))
    /\ [](pc[Main] # "run" => \A t \in Tasks : pc[t] \in Terminal)
    /\ [][\A t \in Tasks : /\ pc[t] # "pending" => pc'[t] # "pending"
                           /\ pc[t] \in Terminal => pc'[t] = pc[t]]_vars

\* Two seeds and a pool of one worker: the second runs after the first has
\* ended.
C17_Witness ==
    /\ max_workers = 1 /\ Len(seed_urls) = 2
    /\ pc[1] \in Terminal /\ Active(2)

\* The attempts of retry_request that failed for the page of task t.
FailedAttempts(t) == {e \in log : e.msg = "attempt_failed" /\ e.task = t}

\* C18: once the page of task t has been requested, with f attempts failed:
\* f is at most retry_attempts; retry_request slept after each failed attempt
\* but the retry_attempts-th, retry_backoff^k seconds after the k-th; and
\* when fewer than retry_attempts failed, the attempt after them got its
\* answer with one request, the last request made.
C18_BackoffSleeps ==
    \A t \in Tasks :
       server[t] # NoServer =>
         LET f == Cardinality(FailedAttempts(t))
         IN /\ f <= retry_attempts
            /\ Len(sleeps[t]) = IF f < retry_attempts THEN f
                                ELSE retry_attempts - 1
            /\ \A k \in DOMAIN sleeps[t] : sleeps[t][k] = retry_backoff ^ k
            /\ f < retry_attempts =>
                 /\ page_requests[t] = f * (RetryTotal + 1) + 1
                 /\ ~Retryable(Response(server[t], page_requests[t]))
            /\ f = retry_attempts =>
                 page_requests[t] = f * (RetryTotal + 1)

\* One page was fetched at the second attempt, after one sleep; another
\* failed at every attempt, with two sleeps.
C18_Witness ==
    \E t, u \in Tasks :
       /\ pc[t] = "fetched" /\ sleeps[t] = << retry_backoff >>
       /\ Cardinality(FailedAttempts(t)) = 1
       /\ pc[u] = "failed" /\ Cardinality(FailedAttempts(u)) = retry_attempts
       /\ sleeps[u] = << retry_backoff, retry_backoff * retry_backoff >>

\* C19: a task whose URL robots.txt denies ends there: it has made no page
\* request, has looked at no image, has no text in the buffer or in a unit
\* and no image in the ledger, and its skip is logged; a sibling that met no
\* write failure ends as it would have ended alone.
C19_DeniedTaskDoesNothing ==
    \A t \in Tasks :
       robots[t] = "deny" =>
         /\ pc[t] = "skipped"
         /\ Log("warning", "skipped", t, 0) \in log
         /\ page_requests[t] = 0 /\ server[t] = NoServer
         /\ FailedAttempts(t) = {}
         /\ img_i[t] = 0 /\ page_images[t] = << >>
         /\ ImageErrorsOf(t) = {} /\ RecordsOf(t) = {}
         /\ text_outcome[t] = "none" /\ stored_at[t] = 0
         /\ t \notin Range(text_storage)
         /\ \A format \in storage_formats : UnitsOf(t, format) = {}
         /\ \A u \in Tasks \ {t} :
              (pc[u] \in Terminal /\ ~WriteFailedIn(u)) =>
                 pc[u] = OutcomeAlone(u)

\* The first of two seeds was denied; the one worker went on to the second,
\* whose text and image were stored.
C19_Witness ==
    /\ max_workers = 1 /\ Len(seed_urls) = 2
    /\ robots[1] = "deny"
    /\ pc[2] = "done" /\ text_outcome[2] = "stored" /\ RecordsOf(2) # {}

\* A write of the flush of process p raises in this step.
FlushFails(p) ==
    /\ pc[p] \in {"flush_jsonl", "flush_parquet"}
    /\ pc'[p] \in {"failed", "crashed"}

\* C20: the step in which a write of a flush raises leaves the buffer as it
\* is; and when the parquet write of a task raised after its jsonl unit was
\* written, then, once the final flush has returned, every record of that
\* unit is in a second jsonl unit, written by a later flush.
C20_FailedFlushWrittenAgain ==
    /\ [][\A p \in Procs : FlushFails(p) => text_storage' = text_storage]_vars
    /\ [](pc[Main] = "exit" =>
            \A t \in Tasks : \A i \in UnitsBy(t, "jsonl") :
               WriteFailedIn(t) =>
                 \A r \in Range(files[i].batch) :
                    Cardinality(UnitsOf(r, "jsonl")) >= 2)
====
